---- MODULE Spec2Model ----
(***************************************************************************)
(* rustdoc "implementors" data scripts of the wasmtime API documentation.  *)
(*                                                                         *)
(* Each script is one immediately-invoked function:                        *)
(*                                                                         *)
(*   (function() {var implementors = { ...literal table... };              *)
(*    if (window.register_implementors) {                                  *)
(*        window.register_implementors(implementors);                      *)
(*    } else {                                                             *)
(*        window.pending_implementors = implementors;                      *)
(*    }})()                                                                *)
(*                                                                         *)
(* The model is the page's global object (window), the log of handler      *)
(* invocations, and the history of script loads.  The page sets the        *)
(* initial globals; the documentation viewer installs the handler.         *)
(***************************************************************************)
EXTENDS Integers, Sequences, FiniteSets, TLC

VARIABLES
    window,   \* the globals the scripts read or write
    calls,    \* handler invocations so far, in order
    loads,    \* history: one record per data-script run, in load order
    writes,   \* history: number of assignments to window.pending_implementors
    viewer    \* whether the documentation viewer has installed its handler

vars == <<window, calls, loads, writes, viewer>>

\* Number of data-script loads explored on one page.
MaxLoads == 3

(***************************************************************************)
(* The two literal tables (source lines 1-7 of each file).  The strings    *)
(* are the source's string literals, escapes included.                     *)
(***************************************************************************)
implementors_Lower ==
  [
    component_test_util |-> <<
        <<"impl Lower for <a class=\"struct\" href=\"component_test_util/struct.Float32.html\" title=\"struct component_test_util::Float32\">Float32</a>">>,
        <<"impl Lower for <a class=\"struct\" href=\"component_test_util/struct.Float64.html\" title=\"struct component_test_util::Float64\">Float64</a>">>
    >>,
    wasmtime |-> <<>>,
    wasmtime_wasi |-> <<
        <<"impl Lower for <a class=\"enum\" href=\"wasmtime_wasi/preview2/wasi/command/wasi/sockets/tcp/enum.ShutdownType.html\" title=\"enum wasmtime_wasi::preview2::wasi::command::wasi::sockets::tcp::ShutdownType\">ShutdownType</a>">>,
        <<"impl Lower for <a class=\"struct\" href=\"wasmtime_wasi/preview2/wasi/command/wasi/sockets/udp/struct.Datagram.html\" title=\"struct wasmtime_wasi::preview2::wasi::command::wasi::sockets::udp::Datagram\">Datagram</a>">>,
        <<"impl Lower for <a class=\"enum\" href=\"wasmtime_wasi/preview2/wasi/wasi/filesystem/filesystem/enum.Advice.html\" title=\"enum wasmtime_wasi::preview2::wasi::wasi::filesystem::filesystem::Advice\">Advice</a>">>,
        <<"impl Lower for <a class=\"struct\" href=\"wasmtime_wasi/preview2/wasi/command/wasi/sockets/network/struct.Ipv6SocketAddress.html\" title=\"struct wasmtime_wasi::preview2::wasi::command::wasi::sockets::network::Ipv6SocketAddress\">Ipv6SocketAddress</a>">>,
        <<"impl Lower for <a class=\"struct\" href=\"wasmtime_wasi/preview2/wasi/command/wasi/sockets/network/struct.Ipv4SocketAddress.html\" title=\"struct wasmtime_wasi::preview2::wasi::command::wasi::sockets::network::Ipv4SocketAddress\">Ipv4SocketAddress</a>">>,
        <<"impl Lower for <a class=\"enum\" href=\"wasmtime_wasi/preview2/wasi/command/wasi/sockets/network/enum.IpSocketAddress.html\" title=\"enum wasmtime_wasi::preview2::wasi::command::wasi::sockets::network::IpSocketAddress\">IpSocketAddress</a>">>,
        <<"impl Lower for <a class=\"enum\" href=\"wasmtime_wasi/preview2/wasi/wasi/filesystem/filesystem/enum.NewTimestamp.html\" title=\"enum wasmtime_wasi::preview2::wasi::wasi::filesystem::filesystem::NewTimestamp\">NewTimestamp</a>">>,
        <<"impl Lower for <a class=\"struct\" href=\"wasmtime_wasi/preview2/wasi/command/wasi/clocks/wall_clock/struct.Datetime.html\" title=\"struct wasmtime_wasi::preview2::wasi::command::wasi::clocks::wall_clock::Datetime\">Datetime</a>">>,
        <<"impl Lower for <a class=\"enum\" href=\"wasmtime_wasi/preview2/wasi/command/wasi/sockets/network/enum.IpAddressFamily.html\" title=\"enum wasmtime_wasi::preview2::wasi::command::wasi::sockets::network::IpAddressFamily\">IpAddressFamily</a>">>,
        <<"impl Lower for <a class=\"struct\" href=\"wasmtime_wasi/preview2/wasi/wasi/filesystem/filesystem/struct.DescriptorStat.html\" title=\"struct wasmtime_wasi::preview2::wasi::wasi::filesystem::filesystem::DescriptorStat\">DescriptorStat</a>">>,
        <<"impl Lower for <a class=\"struct\" href=\"wasmtime_wasi/preview2/wasi/wasi/filesystem/filesystem/struct.Modes.html\" title=\"struct wasmtime_wasi::preview2::wasi::wasi::filesystem::filesystem::Modes\">Modes</a>">>,
        <<"impl Lower for <a class=\"enum\" href=\"wasmtime_wasi/preview2/wasi/wasi/filesystem/filesystem/enum.ErrorCode.html\" title=\"enum wasmtime_wasi::preview2::wasi::wasi::filesystem::filesystem::ErrorCode\">ErrorCode</a>">>,
        <<"impl Lower for <a class=\"struct\" href=\"wasmtime_wasi/preview2/wasi/wasi/filesystem/filesystem/struct.DescriptorFlags.html\" title=\"struct wasmtime_wasi::preview2::wasi::wasi::filesystem::filesystem::DescriptorFlags\">DescriptorFlags</a>">>,
        <<"impl Lower for <a class=\"struct\" href=\"wasmtime_wasi/preview2/wasi/wasi/filesystem/filesystem/struct.OpenFlags.html\" title=\"struct wasmtime_wasi::preview2::wasi::wasi::filesystem::filesystem::OpenFlags\">OpenFlags</a>">>,
        <<"impl Lower for <a class=\"enum\" href=\"wasmtime_wasi/preview2/wasi/command/wasi/sockets/network/enum.IpAddress.html\" title=\"enum wasmtime_wasi::preview2::wasi::command::wasi::sockets::network::IpAddress\">IpAddress</a>">>,
        <<"impl Lower for <a class=\"struct\" href=\"wasmtime_wasi/preview2/wasi/wasi/filesystem/filesystem/struct.DirectoryEntry.html\" title=\"struct wasmtime_wasi::preview2::wasi::wasi::filesystem::filesystem::DirectoryEntry\">DirectoryEntry</a>">>,
        <<"impl Lower for <a class=\"struct\" href=\"wasmtime_wasi/preview2/wasi/wasi/clocks/wall_clock/struct.Datetime.html\" title=\"struct wasmtime_wasi::preview2::wasi::wasi::clocks::wall_clock::Datetime\">Datetime</a>">>,
        <<"impl Lower for <a class=\"struct\" href=\"wasmtime_wasi/preview2/wasi/wasi/clocks/timezone/struct.TimezoneDisplay.html\" title=\"struct wasmtime_wasi::preview2::wasi::wasi::clocks::timezone::TimezoneDisplay\">TimezoneDisplay</a>">>,
        <<"impl Lower for <a class=\"enum\" href=\"wasmtime_wasi/preview2/wasi/wasi/filesystem/filesystem/enum.AccessType.html\" title=\"enum wasmtime_wasi::preview2::wasi::wasi::filesystem::filesystem::AccessType\">AccessType</a>">>,
        <<"impl Lower for <a class=\"struct\" href=\"wasmtime_wasi/preview2/wasi/wasi/io/streams/struct.StreamError.html\" title=\"struct wasmtime_wasi::preview2::wasi::wasi::io::streams::StreamError\">StreamError</a>">>,
        <<"impl Lower for <a class=\"enum\" href=\"wasmtime_wasi/preview2/wasi/command/wasi/sockets/network/enum.ErrorCode.html\" title=\"enum wasmtime_wasi::preview2::wasi::command::wasi::sockets::network::ErrorCode\">ErrorCode</a>">>,
        <<"impl Lower for <a class=\"struct\" href=\"wasmtime_wasi/preview2/wasi/wasi/filesystem/filesystem/struct.PathFlags.html\" title=\"struct wasmtime_wasi::preview2::wasi::wasi::filesystem::filesystem::PathFlags\">PathFlags</a>">>,
        <<"impl Lower for <a class=\"enum\" href=\"wasmtime_wasi/preview2/wasi/wasi/filesystem/filesystem/enum.DescriptorType.html\" title=\"enum wasmtime_wasi::preview2::wasi::wasi::filesystem::filesystem::DescriptorType\">DescriptorType</a>">>
    >>,
    wasmtime_wasi_http |-> <<
        <<"impl Lower for <a class=\"struct\" href=\"wasmtime_wasi_http/wasi/io/streams/struct.StreamError.html\" title=\"struct wasmtime_wasi_http::wasi::io::streams::StreamError\">StreamError</a>">>,
        <<"impl Lower for <a class=\"struct\" href=\"wasmtime_wasi_http/wasi/http/types/struct.RequestOptions.html\" title=\"struct wasmtime_wasi_http::wasi::http::types::RequestOptions\">RequestOptions</a>">>,
        <<"impl Lower for <a class=\"enum\" href=\"wasmtime_wasi_http/wasi/http/types/enum.Error.html\" title=\"enum wasmtime_wasi_http::wasi::http::types::Error\">Error</a>">>,
        <<"impl Lower for <a class=\"enum\" href=\"wasmtime_wasi_http/wasi/http/types/enum.Method.html\" title=\"enum wasmtime_wasi_http::wasi::http::types::Method\">Method</a>">>,
        <<"impl Lower for <a class=\"enum\" href=\"wasmtime_wasi_http/wasi/http/types/enum.Scheme.html\" title=\"enum wasmtime_wasi_http::wasi::http::types::Scheme\">Scheme</a>">>,
        <<"impl Lower for <a class=\"struct\" href=\"wasmtime_wasi_http/wasi/clocks/timezone/struct.TimezoneDisplay.html\" title=\"struct wasmtime_wasi_http::wasi::clocks::timezone::TimezoneDisplay\">TimezoneDisplay</a>">>,
        <<"impl Lower for <a class=\"struct\" href=\"wasmtime_wasi_http/wasi/clocks/wall_clock/struct.Datetime.html\" title=\"struct wasmtime_wasi_http::wasi::clocks::wall_clock::Datetime\">Datetime</a>">>
    >>,
    wiggle |-> <<>>
  ]

implementors_part_000 ==
  [
    cranelift_codegen |-> <<
        <<"impl&lt;'f&gt; <a class=\"trait\" href=\"https://doc.rust-lang.org/nightly/core/iter/traits/collect/trait.IntoIterator.html\" title=\"trait core::iter::traits::collect::IntoIterator\">IntoIterator</a> for &amp;'f <a class=\"struct\" href=\"cranelift_codegen/ir/layout/struct.Layout.html\" title=\"struct cranelift_codegen::ir::layout::Layout\">Layout</a>">>
    >>,
    cranelift_entity |-> <<
        <<"impl&lt;'a, K, V&gt; <a class=\"trait\" href=\"https://doc.rust-lang.org/nightly/core/iter/traits/collect/trait.IntoIterator.html\" title=\"trait core::iter::traits::collect::IntoIterator\">IntoIterator</a> for &amp;'a mut <a class=\"struct\" href=\"cranelift_entity/struct.PrimaryMap.html\" title=\"struct cranelift_entity::PrimaryMap\">PrimaryMap</a>&lt;K, V&gt;<span class=\"where fmt-newline\">where\n    K: <a class=\"trait\" href=\"cranelift_entity/trait.EntityRef.html\" title=\"trait cranelift_entity::EntityRef\">EntityRef</a>,</span>">>,
        <<"impl&lt;K, V&gt; <a class=\"trait\" href=\"https://doc.rust-lang.org/nightly/core/iter/traits/collect/trait.IntoIterator.html\" title=\"trait core::iter::traits::collect::IntoIterator\">IntoIterator</a> for <a class=\"struct\" href=\"cranelift_entity/struct.PrimaryMap.html\" title=\"struct cranelift_entity::PrimaryMap\">PrimaryMap</a>&lt;K, V&gt;<span class=\"where fmt-newline\">where\n    K: <a class=\"trait\" href=\"cranelift_entity/trait.EntityRef.html\" title=\"trait cranelift_entity::EntityRef\">EntityRef</a>,</span>">>,
        <<"impl&lt;'a, K, V&gt; <a class=\"trait\" href=\"https://doc.rust-lang.org/nightly/core/iter/traits/collect/trait.IntoIterator.html\" title=\"trait core::iter::traits::collect::IntoIterator\">IntoIterator</a> for &amp;'a mut <a class=\"struct\" href=\"cranelift_entity/struct.BoxedSlice.html\" title=\"struct cranelift_entity::BoxedSlice\">BoxedSlice</a>&lt;K, V&gt;<span class=\"where fmt-newline\">where\n    K: <a class=\"trait\" href=\"cranelift_entity/trait.EntityRef.html\" title=\"trait cranelift_entity::EntityRef\">EntityRef</a>,</span>">>,
        <<"impl&lt;'a, K, V&gt; <a class=\"trait\" href=\"https://doc.rust-lang.org/nightly/core/iter/traits/collect/trait.IntoIterator.html\" title=\"trait core::iter::traits::collect::IntoIterator\">IntoIterator</a> for &amp;'a <a class=\"struct\" href=\"cranelift_entity/struct.PrimaryMap.html\" title=\"struct cranelift_entity::PrimaryMap\">PrimaryMap</a>&lt;K, V&gt;<span class=\"where fmt-newline\">where\n    K: <a class=\"trait\" href=\"cranelift_entity/trait.EntityRef.html\" title=\"trait cranelift_entity::EntityRef\">EntityRef</a>,</span>">>,
        <<"impl&lt;'a, K, V&gt; <a class=\"trait\" href=\"https://doc.rust-lang.org/nightly/core/iter/traits/collect/trait.IntoIterator.html\" title=\"trait core::iter::traits::collect::IntoIterator\">IntoIterator</a> for &amp;'a <a class=\"struct\" href=\"cranelift_entity/struct.BoxedSlice.html\" title=\"struct cranelift_entity::BoxedSlice\">BoxedSlice</a>&lt;K, V&gt;<span class=\"where fmt-newline\">where\n    K: <a class=\"trait\" href=\"cranelift_entity/trait.EntityRef.html\" title=\"trait cranelift_entity::EntityRef\">EntityRef</a>,</span>">>,
        <<"impl&lt;'a, K, V&gt; <a class=\"trait\" href=\"https://doc.rust-lang.org/nightly/core/iter/traits/collect/trait.IntoIterator.html\" title=\"trait core::iter::traits::collect::IntoIterator\">IntoIterator</a> for &amp;'a <a class=\"struct\" href=\"cranelift_entity/struct.SparseMap.html\" title=\"struct cranelift_entity::SparseMap\">SparseMap</a>&lt;K, V&gt;<span class=\"where fmt-newline\">where\n    K: <a class=\"trait\" href=\"cranelift_entity/trait.EntityRef.html\" title=\"trait cranelift_entity::EntityRef\">EntityRef</a>,\n    V: <a class=\"trait\" href=\"cranelift_entity/trait.SparseMapValue.html\" title=\"trait cranelift_entity::SparseMapValue\">SparseMapValue</a>&lt;K&gt;,</span>">>
    >>,
    reactor_tests |-> <<
        <<"impl <a class=\"trait\" href=\"https://doc.rust-lang.org/nightly/core/iter/traits/collect/trait.IntoIterator.html\" title=\"trait core::iter::traits::collect::IntoIterator\">IntoIterator</a> for <a class=\"struct\" href=\"reactor_tests/wasi/filesystem/filesystem/struct.OpenFlags.html\" title=\"struct reactor_tests::wasi::filesystem::filesystem::OpenFlags\">OpenFlags</a>">>,
        <<"impl <a class=\"trait\" href=\"https://doc.rust-lang.org/nightly/core/iter/traits/collect/trait.IntoIterator.html\" title=\"trait core::iter::traits::collect::IntoIterator\">IntoIterator</a> for <a class=\"struct\" href=\"reactor_tests/wasi/filesystem/filesystem/struct.Modes.html\" title=\"struct reactor_tests::wasi::filesystem::filesystem::Modes\">Modes</a>">>,
        <<"impl <a class=\"trait\" href=\"https://doc.rust-lang.org/nightly/core/iter/traits/collect/trait.IntoIterator.html\" title=\"trait core::iter::traits::collect::IntoIterator\">IntoIterator</a> for <a class=\"struct\" href=\"reactor_tests/wasi/filesystem/filesystem/struct.DescriptorFlags.html\" title=\"struct reactor_tests::wasi::filesystem::filesystem::DescriptorFlags\">DescriptorFlags</a>">>,
        <<"impl <a class=\"trait\" href=\"https://doc.rust-lang.org/nightly/core/iter/traits/collect/trait.IntoIterator.html\" title=\"trait core::iter::traits::collect::IntoIterator\">IntoIterator</a> for <a class=\"struct\" href=\"reactor_tests/wasi/filesystem/filesystem/struct.PathFlags.html\" title=\"struct reactor_tests::wasi::filesystem::filesystem::PathFlags\">PathFlags</a>">>
    >>,
    wasi_snapshot_preview1 |-> <<
        <<"impl <a class=\"trait\" href=\"https://doc.rust-lang.org/nightly/core/iter/traits/collect/trait.IntoIterator.html\" title=\"trait core::iter::traits::collect::IntoIterator\">IntoIterator</a> for <a class=\"struct\" href=\"wasi_snapshot_preview1/bindings/wasi/filesystem/filesystem/struct.DescriptorFlags.html\" title=\"struct wasi_snapshot_preview1::bindings::wasi::filesystem::filesystem::DescriptorFlags\">DescriptorFlags</a>">>,
        <<"impl <a class=\"trait\" href=\"https://doc.rust-lang.org/nightly/core/iter/traits/collect/trait.IntoIterator.html\" title=\"trait core::iter::traits::collect::IntoIterator\">IntoIterator</a> for <a class=\"struct\" href=\"wasi_snapshot_preview1/bindings/wasi/filesystem/filesystem/struct.Modes.html\" title=\"struct wasi_snapshot_preview1::bindings::wasi::filesystem::filesystem::Modes\">Modes</a>">>,
        <<"impl <a class=\"trait\" href=\"https://doc.rust-lang.org/nightly/core/iter/traits/collect/trait.IntoIterator.html\" title=\"trait core::iter::traits::collect::IntoIterator\">IntoIterator</a> for <a class=\"struct\" href=\"wasi_snapshot_preview1/bindings/wasi/filesystem/filesystem/struct.OpenFlags.html\" title=\"struct wasi_snapshot_preview1::bindings::wasi::filesystem::filesystem::OpenFlags\">OpenFlags</a>">>,
        <<"impl <a class=\"trait\" href=\"https://doc.rust-lang.org/nightly/core/iter/traits/collect/trait.IntoIterator.html\" title=\"trait core::iter::traits::collect::IntoIterator\">IntoIterator</a> for <a class=\"struct\" href=\"wasi_snapshot_preview1/bindings/wasi/filesystem/filesystem/struct.PathFlags.html\" title=\"struct wasi_snapshot_preview1::bindings::wasi::filesystem::filesystem::PathFlags\">PathFlags</a>">>
    >>,
    wasmtime_environ |-> <<>>
  ]

Lower == "trait.Lower.js"
Part000 == "part_000"

\* The data scripts of the repository.
Files == {Lower, Part000}

\* Variant of implementors: a generator that leaves out the libraries that
\* have no implementor instead of mapping them to the empty list.
implementors_Omitting(f) ==
    LET t == IF f = Lower THEN implementors_Lower ELSE implementors_part_000
    IN  [k \in {l \in DOMAIN t : t[l] # <<>>} |-> t[k]]

\* var implementors = {...}: the table the script named f builds.
implementors(f) == IF f = Lower THEN implementors_Lower ELSE implementors_part_000

(***************************************************************************)
(* JavaScript values, as far as the scripts can tell them apart.  A value  *)
(* is [kind, of]: kind is what ToBoolean and the call operator look at,    *)
(* of names the value (for a table: the script that built it).             *)
(* A function installed as the handler is taken to return when called:     *)
(* what a handler does with a table is the handler's business.             *)
(***************************************************************************)
Undefined   == [kind |-> "undefined", of |-> "none"]
Falsy       == [kind |-> "falsy",     of |-> "null"]      \* null, 0, "", false, NaN
PageFn      == [kind |-> "function",  of |-> "page"]      \* a handler set by the page
ViewerFn    == [kind |-> "function",  of |-> "viewer"]    \* the viewer's handler
NonCallable == [kind |-> "object",    of |-> "other"]     \* truthy, not a function

\* The object a run of script f binds to its local variable implementors.
Table(f) == [kind |-> "object", of |-> f]

\* ToBoolean, as applied by  if (window.register_implementors).
Truthy(v) == v.kind \in {"function", "object"}

\* IsCallable, as applied by the call  window.register_implementors(...).
Callable(v) == v.kind = "function"

\* Variant of Branch: tests  !== undefined  instead of truthiness.
Branch_Defined(w) == IF w.register_implementors # Undefined THEN "call" ELSE "stash"

\* Which branch of the if/else a run takes.
Branch(w) == IF Truthy(w.register_implementors) THEN "call" ELSE "stash"

\* Variant of Outcome: the call is guarded by  typeof ... === "function",
\* and a value that is not a function falls through to the else-branch.
Outcome_Guarded(w) ==
    IF Callable(w.register_implementors)
    THEN "returned"
    ELSE "stored"

\* How the run of a script ends, given the globals it started from:
\*   "returned"  - the handler was called and returned
\*   "TypeError" - the callee is not a function; nothing was called
\*   "stored"    - the else branch assigned window.pending_implementors
Outcome(w) ==
    IF Branch(w) = "call"
    THEN IF Callable(w.register_implementors)
         THEN "returned"
         ELSE "TypeError"
    ELSE "stored"

\* Variant of ThenBranch: the table is stashed as well as handed over.
ThenBranch_AlsoStash(w, n, f) ==
    [window |-> [w EXCEPT !.pending_implementors = Table(f)], writes |-> n + 1]

\* The then-branch,  window.register_implementors(implementors);  leaves the
\* globals alone (the handler's own effects are the handler's, not the script's).
ThenBranch(w, n, f) == [window |-> w, writes |-> n]

\* Variant of ElseBranch: write-once, a table already waiting is kept.
ElseBranch_WriteOnce(w, n, f) ==
    IF w.pending_implementors.of \in Files
    THEN [window |-> w, writes |-> n]
    ELSE [window |-> [w EXCEPT !.pending_implementors = Table(f)], writes |-> n + 1]

\* Variant of ElseBranch: the table is dropped when no handler is installed.
ElseBranch_Drop(w, n, f) == [window |-> w, writes |-> n]

\* The else-branch,  window.pending_implementors = implementors;  is a plain
\* assignment: whatever the global held before is replaced.
ElseBranch(w, n, f) ==
    [window |-> [w EXCEPT !.pending_implementors = Table(f)], writes |-> n + 1]

\* Variant of ScriptGlobals: no enclosing function, so  var implementors
\* declares a global.
ScriptGlobals_NoIIFE(w, n, f) ==
    LET r == IF Truthy(w.register_implementors)
             THEN [window |-> w, writes |-> n]
             ELSE [window |-> [w EXCEPT !.pending_implementors = Table(f)],
                   writes |-> n + 1]
    IN  [r EXCEPT !.window.implementors = Table(f)]

\* The globals, and the count of assignments to pending_implementors, after
\* a run of script f.  The table is a var of the enclosing function, so no
\* global named implementors is written.
ScriptGlobals(w, n, f) ==
    IF Branch(w) = "call" THEN ThenBranch(w, n, f) ELSE ElseBranch(w, n, f)

\* The call  window.register_implementors(implementors)  made by script f.
ScriptCall(w, f) == [fn |-> w.register_implementors, arg |-> Table(f), by |-> f]

\* Variant of ScriptCalls: the handler is invoked twice.
ScriptCalls_Twice(w, cs, f) ==
    IF Truthy(w.register_implementors) /\ Callable(w.register_implementors)
    THEN cs \o <<ScriptCall(w, f), ScriptCall(w, f)>>
    ELSE cs

\* Variant of ScriptCalls: a table already handed over is not handed over again.
ScriptCalls_SkipRepeat(w, cs, f) ==
    IF Truthy(w.register_implementors) /\ Callable(w.register_implementors)
       /\ \A i \in 1..Len(cs) : cs[i].arg # Table(f)
    THEN Append(cs, ScriptCall(w, f))
    ELSE cs

\* The handler invocations after a run of script f.
ScriptCalls(w, cs, f) ==
    IF Branch(w) = "call" /\ Callable(w.register_implementors)
    THEN Append(cs, ScriptCall(w, f))
    ELSE cs

TypeOK ==
    /\ window \in [register_implementors : {Undefined, Falsy, PageFn, ViewerFn, NonCallable},
                   pending_implementors  : {Undefined, NonCallable} \cup {Table(f) : f \in Files},
                   implementors          : {Undefined, NonCallable} \cup {Table(f) : f \in Files}]
    /\ Len(calls) <= MaxLoads + 1
    /\ \A i \in 1..Len(calls) : calls[i].by \in Files \cup {"viewer"}
    /\ Len(loads) <= MaxLoads
    /\ writes \in 0..MaxLoads
    /\ viewer \in BOOLEAN

(***************************************************************************)
(* A fresh page: the page, not the scripts, decides what the three global  *)
(* names hold before the first script runs.                                *)
(***************************************************************************)
Init ==
    /\ window \in [register_implementors : {Undefined, Falsy, PageFn, NonCallable},
                   pending_implementors  : {Undefined, NonCallable},
                   implementors          : {Undefined, NonCallable}]
    /\ calls = <<>>
    /\ loads = <<>>
    /\ writes = 0
    /\ viewer = FALSE

\* One run of the data script f, start to end (a script runs to its end or
\* to its uncaught exception before anything else on the page runs).
RunScript(f) ==
    /\ Len(loads) < MaxLoads
    /\ window' = ScriptGlobals(window, writes, f).window
    /\ writes' = ScriptGlobals(window, writes, f).writes
    /\ calls' = ScriptCalls(window, calls, f)
    /\ loads' = Append(loads, [file |-> f,
                               saw |-> window.register_implementors,
                               outcome |-> Outcome(window)])
    /\ UNCHANGED viewer

\* The documentation viewer becomes ready: it installs its handler and
\* passes it whatever table is waiting in window.pending_implementors.
InstallViewer ==
    /\ ~viewer
    /\ viewer' = TRUE
    /\ window' = [window EXCEPT !.register_implementors = ViewerFn]
    /\ calls' = IF Truthy(window.pending_implementors)
                THEN Append(calls, [fn |-> ViewerFn,
                                    arg |-> window.pending_implementors,
                                    by |-> "viewer"])
                ELSE calls
    /\ UNCHANGED <<loads, writes>>

Next ==
    \/ \E f \in Files : RunScript(f)
    \/ InstallViewer

Spec == Init /\ [][Next]_vars

(***************************************************************************)
(* Properties.                                                             *)
(***************************************************************************)

\* The handler invocations made by data scripts (not by the viewer).
IsScriptCall(c) == c.by # "viewer"
ScriptCallsMade == SelectSeq(calls, IsScriptCall)

\* The loads that ran while no handler was installed.
Deferred == {i \in 1..Len(loads) : ~Truthy(loads[i].saw)}

\* C1 (as stated): whenever a data script runs while
\* window.register_implementors is truthy, the run invokes it exactly once,
\* with that script's table as the single argument.
C1_TruthyInvokedOnce ==
    [][\A f \in Files :
         (RunScript(f) /\ Truthy(window.register_implementors))
            => calls' = Append(calls, ScriptCall(window, f))]_vars

\* C1 (amended): whenever a data script runs while
\* window.register_implementors is a function, the run invokes it exactly
\* once, with that script's table as the single argument.
C1_FunctionInvokedOnce ==
    [][\A f \in Files :
         (RunScript(f) /\ Callable(window.register_implementors))
            => calls' = Append(calls, ScriptCall(window, f))]_vars

C1_Witness ==
    /\ Len(loads) = 1
    /\ Callable(loads[1].saw)
    /\ calls = <<[fn |-> loads[1].saw, arg |-> Table(loads[1].file), by |-> loads[1].file]>>

\* C2: whenever a data script runs while window.register_implementors is
\* undefined or otherwise falsy, no handler is invoked and afterwards
\* window.pending_implementors holds that script's table.
C2_AbsentStashes ==
    [][\A f \in Files :
         (RunScript(f) /\ ~Truthy(window.register_implementors))
            => /\ calls' = calls
               /\ window'.pending_implementors = Table(f)]_vars

C2_Witness ==
    /\ Len(loads) = 1
    /\ loads[1].saw = Falsy
    /\ calls = <<>>
    /\ window.pending_implementors = Table(loads[1].file)

\* C3: a run that hands its table to the handler leaves
\* window.pending_implementors as it was, set or unset.
C3_CallLeavesPending ==
    [][\A f \in Files :
         (RunScript(f) /\ calls' # calls)
            => window'.pending_implementors = window.pending_implementors]_vars

C3_Witness ==
    /\ Len(loads) = 1
    /\ Len(ScriptCallsMade) = 1
    /\ window.pending_implementors = NonCallable

\* C4 (as stated): over any sequence of loads on one page,
\* window.pending_implementors is assigned at most once.
C4_WriteOnce == writes <= 1

\* C4 (amended): window.pending_implementors is assigned once by every load
\* that runs while no handler is installed and by no other load, so a later
\* such load overwrites what an earlier one stored.
C4_OneWritePerDeferredLoad == writes = Cardinality(Deferred)

C4_Witness ==
    /\ writes = 2
    /\ Len(loads) = 2
    /\ loads[1].file # loads[2].file
    /\ window.pending_implementors = Table(loads[2].file)

\* C5 (as stated): until the callback is installed, every table deferred so
\* far is still held in the pending state.
C5_AllDeferredRetained ==
    ~viewer => \A i \in Deferred : window.pending_implementors = Table(loads[i].file)

\* C5 (amended): the pending variable is one slot; it holds the table of the
\* most recent load that ran while no handler was installed, and only that.
C5_LastDeferredRetained ==
    \A i \in Deferred :
        (\A j \in Deferred : j <= i) => window.pending_implementors = Table(loads[i].file)

C5_Witness ==
    /\ ~viewer
    /\ Deferred = {1, 2}
    /\ loads[1].file = Lower
    /\ loads[2].file = Part000
    /\ window.pending_implementors = Table(Part000)

\* The tables that data scripts have handed over or stashed.
Published ==
    {calls[i].arg.of : i \in 1..Len(calls)} \cup {window.pending_implementors.of}

\* The libraries the generator lists without any implementor.
NoImplementors == {"wasmtime", "wiggle", "wasmtime_environ"}

\* C6: every table handed over or stashed maps library-name strings to
\* lists of one-element lists of a string, and a library without any
\* implementor is a key mapped to the empty list.
C6_TableShape ==
    \A f \in Published \cap Files :
        LET t == implementors(f)
        IN  /\ DOMAIN t \subseteq STRING
            /\ \A k \in DOMAIN t :
                 /\ t[k] \in Seq(Seq(STRING))
                 /\ \A i \in 1..Len(t[k]) : Len(t[k][i]) = 1
            /\ DOMAIN t \cap NoImplementors # {}
            /\ \A k \in DOMAIN t : k \in NoImplementors <=> t[k] = <<>>

C6_Witness ==
    /\ \E i \in 1..Len(calls) : calls[i].arg = Table(Lower)
    /\ window.pending_implementors = Table(Part000)

\* C7 (as stated): every run of a data script completes, with its table
\* handed to the handler or stored.
C7_NoErrorOutcome ==
    \A i \in 1..Len(loads) : loads[i].outcome \in {"returned", "stored"}

\* C7 (amended): a run stores its table when window.register_implementors
\* is unset or falsy and hands it over when it is a function (one that returns);
\* when it is truthy and not callable the run ends in a TypeError, with the
\* table neither handed over nor stored.
C7_ErrorWhenNotCallable ==
    [][\A f \in Files :
         RunScript(f) =>
            LET r == window.register_implementors
                o == loads'[Len(loads')].outcome
            IN  /\ ~Truthy(r) =>
                     o = "stored" /\ window'.pending_implementors = Table(f)
                /\ Callable(r) =>
                     o = "returned" /\ calls' = Append(calls, ScriptCall(window, f))
                /\ (Truthy(r) /\ ~Callable(r)) =>
                     o = "TypeError" /\ calls' = calls /\ window' = window]_vars

C7_Witness ==
    /\ Len(loads) = 1
    /\ loads[1].saw = NonCallable
    /\ loads[1].outcome = "TypeError"
    /\ calls = <<>>
    /\ window.pending_implementors = Undefined

\* How often the viewer's handler has received the table of script f.
Received(f) ==
    Cardinality({i \in 1..Len(calls) : calls[i].fn = ViewerFn /\ calls[i].arg = Table(f)})

\* C8: with one data-script load and the viewer as the only installer of
\* the handler, the viewer's handler has received the script's table exactly
\* once when both have run, in either order, and never twice.
C8_ExactlyOnce ==
    (Len(loads) = 1 /\ loads[1].saw \in {Undefined, Falsy, ViewerFn})
        => Received(loads[1].file) = IF viewer THEN 1 ELSE 0

C8_Witness ==
    /\ viewer
    /\ Len(loads) = 1
    /\ loads[1].outcome = "stored"
    /\ Received(loads[1].file) = 1

\* C9: a run of a data script changes neither window.register_implementors
\* nor any global named implementors.
C9_OnlyPendingWritten ==
    [][\A f \in Files :
         RunScript(f) =>
            /\ window'.register_implementors = window.register_implementors
            /\ window'.implementors = window.implementors]_vars

C9_Witness ==
    /\ Len(loads) = 2
    /\ window.implementors = Undefined
    /\ window.register_implementors = Undefined
    /\ window.pending_implementors = Table(loads[2].file)

\* C10: while a handler is installed for every load, the scripts' handler
\* invocations are, in load order, one per load, each with the table of the
\* script loaded.
C10_OneCallPerLoad ==
    (\A i \in 1..Len(loads) : Callable(loads[i].saw))
        => /\ Len(ScriptCallsMade) = Len(loads)
           /\ \A i \in 1..Len(loads) :
                ScriptCallsMade[i] = [fn |-> loads[i].saw,
                                      arg |-> Table(loads[i].file),
                                      by |-> loads[i].file]

C10_Witness ==
    /\ Len(loads) = 3
    /\ \A i \in 1..3 : loads[i].saw = PageFn
    /\ loads[1].file = loads[3].file
    /\ loads[1].file # loads[2].file
    /\ Len(ScriptCallsMade) = 3

====
